---- MODULE Spec2Model ----
(***************************************************************************)
(* semantic-release-monorepo: the commit-to-package filter                 *)
(* (only-package-commits), its bounded fan-out over the memoized           *)
(* git reader, and the four wrapped lifecycle hooks.                       *)
(*                                                                         *)
(* JavaScript strings are sequences of one-character strings, so that      *)
(* split, normalize, relative and the tag template are computed, not       *)
(* assumed.  JavaScript objects are functions whose DOMAIN is the set of   *)
(* keys present; a key that is not in the DOMAIN reads as undefined.       *)
(***************************************************************************)
EXTENDS Integers, Sequences, FiniteSets, TLC

VARIABLES
    envThreads,   \* process.env.SRM_MAX_THREADS: [set |-> BOOLEAN, n |-> Nat]
    pkgJson,      \* what pkgUp() finds from the working directory
    repo,         \* hash -> stdout of `git diff-tree --name-only -r hash`
    cache,        \* memoizeWith's table: hash -> the stored promise
    running,      \* hash -> number of git diff-tree subprocesses in flight
    readerCalls,  \* hash -> number of getCommitFiles invocations so far
    readerFailed, \* hash -> a getCommitFiles call for it has failed
    served,       \* hash -> the outcomes memoizedGetCommitFiles has yielded
    limit,        \* limiter -> concurrency of the pLimit instance
    queue,        \* limiter -> pLimit's queue: the tasks not yet started
    active,       \* limiter -> the tasks that run (pLimit's activeCount)
    latest,       \* the limiter of the hook the host called last
    stage,        \* position of the hook invocation the host called last
    hook,         \* name of the wrapped hook
    pluginConfig, \* the pluginConfig the hook was called with
    config,       \* the caller's releaseState object
    given,        \* the arguments as the caller passed them
    failedBefore, \* the hashes whose fetch had failed when the hook was called
    packagePath,  \* result of getPackagePath()
    results,      \* index -> state of the task's promise, as Promise.all sees it
    mapped,       \* the releaseState mapCommits produced
    all,          \* state of the Promise.all promise
    outcome,      \* state of the hook's promise
    handed        \* the calls made to the delegate plugin

vars == <<envThreads, pkgJson, repo, cache, running, readerCalls, readerFailed,
          served, limit, queue, active, latest, stage, hook, pluginConfig,
          config, given, failedBefore, packagePath, results, mapped, all, outcome,
          handed>>

(***************************************************************************)
(* Strings                                                                 *)
(***************************************************************************)
SLASH == "/"
NL == "\n"

\* String.prototype.split with a one-character separator: "" gives [""].
RECURSIVE SplitFrom(_, _, _, _)
SplitFrom(s, sep, i, cur) ==
    IF i > Len(s) THEN <<cur>>
    ELSE IF s[i] = sep THEN <<cur>> \o SplitFrom(s, sep, i + 1, <<>>)
    ELSE SplitFrom(s, sep, i + 1, Append(cur, s[i]))

\* (x is bound by a set, here and below, so that its value is computed once)
Split(s, sep) == CHOOSE r \in {SplitFrom(x, sep, 1, <<>>) : x \in {s}} : TRUE

\* Array.prototype.join
RECURSIVE Join(_, _)
Join(segs, sep) ==
    IF Len(segs) = 0 THEN <<>>
    ELSE IF Len(segs) = 1 THEN segs[1]
    ELSE segs[1] \o <<sep>> \o Join(Tail(segs), sep)

DOT == <<".">>
DOTDOT == <<".", ".">>

\* node's normalizeString: drops "" and "." segments and resolves "..".
RECURSIVE NormalizeSegs(_, _, _)
NormalizeSegs(segs, acc, allowAboveRoot) ==
    IF Len(segs) = 0 THEN acc
    ELSE LET s == Head(segs)
             rest == Tail(segs)
         IN  IF s = <<>> \/ s = DOT THEN NormalizeSegs(rest, acc, allowAboveRoot)
             ELSE IF s = DOTDOT
                  THEN IF Len(acc) > 0 /\ acc[Len(acc)] # DOTDOT
                       THEN NormalizeSegs(rest, SubSeq(acc, 1, Len(acc) - 1), allowAboveRoot)
                       ELSE IF allowAboveRoot
                            THEN NormalizeSegs(rest, Append(acc, DOTDOT), allowAboveRoot)
                            ELSE NormalizeSegs(rest, acc, allowAboveRoot)
                  ELSE NormalizeSegs(rest, Append(acc, s), allowAboveRoot)

\* path.normalize (posix)
NormalizeBody(p, isAbsolute) ==
    CHOOSE r \in {Join(NormalizeSegs(segs, <<>>, ~isAbsolute), SLASH) :
                    segs \in {Split(p, SLASH)}} : TRUE

NormalizeValue(p) ==
    IF Len(p) = 0 THEN DOT
    ELSE LET isAbsolute == p[1] = SLASH
             trailing == p[Len(p)] = SLASH
         IN  CHOOSE r \in
                 {IF Len(body) = 0
                  THEN IF isAbsolute THEN <<SLASH>>
                       ELSE IF trailing THEN <<".", SLASH>> ELSE DOT
                  ELSE (IF isAbsolute THEN <<SLASH>> ELSE <<>>) \o body
                       \o (IF trailing THEN <<SLASH>> ELSE <<>>) :
                     body \in {NormalizeBody(p, isAbsolute)}} : TRUE

Normalize(p) == CHOOSE r \in {NormalizeValue(x) : x \in {p}} : TRUE

\* path.resolve(p, '..') for an absolute p
ResolveParent(p) ==
    CHOOSE r \in {IF Len(n) > 1 /\ n[Len(n)] = SLASH THEN SubSeq(n, 1, Len(n) - 1) ELSE n :
                    n \in {Normalize(p \o <<SLASH, ".", ".">>)}} : TRUE

RECURSIVE CommonLen(_, _)
CommonLen(a, b) ==
    IF Len(a) = 0 \/ Len(b) = 0 \/ Head(a) # Head(b) THEN 0
    ELSE 1 + CommonLen(Tail(a), Tail(b))

\* path.relative(from, to) for absolute, normalized paths
RelativeSegs(f, t) ==
    LET c == CommonLen(f, t)
        ups == [i \in 1..(Len(f) - c) |-> DOTDOT]
    IN  Join(ups \o SubSeq(t, c + 1, Len(t)), SLASH)

Relative(from, to) ==
    CHOOSE r \in
        {RelativeSegs(f, t) :
            f \in {NormalizeSegs(fs, <<>>, FALSE) : fs \in {Split(from, SLASH)}},
            t \in {NormalizeSegs(ts, <<>>, FALSE) : ts \in {Split(to, SLASH)}}} : TRUE

(***************************************************************************)
(* JavaScript values that may be undefined, null or a string               *)
(***************************************************************************)
Undefined == [t |-> "undefined"]
Null == [t |-> "null"]
Str(s) == [t |-> "string", v |-> s]

\* !value
Falsy(value) == value = Undefined \/ value = Null \/ value = Str(<<>>)

\* obj[key]
Prop(key, obj) == IF key \in DOMAIN obj THEN obj[key] ELSE Undefined

\* ramda assoc: a shallow copy of obj with key set
Assoc(key, value, obj) ==
    [k \in DOMAIN obj \cup {key} |-> IF k = key THEN value ELSE obj[k]]

(***************************************************************************)
(* git-utils                                                               *)
(***************************************************************************)
\* getCommitFiles, when git succeeds: its stdout split into lines
getCommitFiles(stdout) == Split(stdout, NL)

\* the rejection of getCommitFiles(hash) when git fails
HistoryUnavailable(hash) == [error |-> "HistoryUnavailable", hash |-> hash]

\* getRoot: stdout of `git rev-parse --show-toplevel`
GitRoot == <<SLASH, "r">>

(***************************************************************************)
(* only-package-commits: the pure part                                     *)
(***************************************************************************)
\* getPackagePath: the package directory relative to the git root
getPackagePath(manifest) == Relative(GitRoot, ResolveParent(manifest))

\* packageSegments.every((packageSegment, i) => packageSegment === fileSegments[i])
EverySegment(packageSegments, fileSegments) ==
    \A i \in 1..Len(packageSegments) :
        i <= Len(fileSegments) /\ packageSegments[i] = fileSegments[i]

\* a callback that compares the strings: normalize(file).startsWith(packagePath)
IsPackageFileByPrefix(packageSegments, file) ==
    LET prefix == Join(packageSegments, SLASH)
        path == Normalize(file)
    IN  Len(path) >= Len(prefix) /\ SubSeq(path, 1, Len(prefix)) = prefix

\* the callback of files.find
IsPackageFile(packageSegments, file) ==
    EverySegment(packageSegments, Split(Normalize(file), SLASH))

\* files.find(...): the first matching file, or undefined
RECURSIVE FindPackageFile(_, _)
FindPackageFile(packageSegments, files) ==
    IF Len(files) = 0 THEN Undefined
    ELSE IF IsPackageFile(packageSegments, Head(files)) THEN Str(Head(files))
    ELSE FindPackageFile(packageSegments, Tail(files))

\* the callback of commitsWithFiles.filter: !!packageFile
KeepsCommit(packageSegments, commit) ==
    ~Falsy(FindPackageFile(packageSegments, commit.files))

RECURSIVE FilterCommits(_, _)
FilterCommits(packageSegments, commitsWithFiles) ==
    IF Len(commitsWithFiles) = 0 THEN <<>>
    ELSE (IF KeepsCommit(packageSegments, Head(commitsWithFiles))
          THEN <<Head(commitsWithFiles)>> ELSE <<>>)
         \o FilterCommits(packageSegments, Tail(commitsWithFiles))

\* onlyPackageCommits after withFiles has resolved
PackageCommits(pkgPath, commitsWithFiles) ==
    FilterCommits(Split(pkgPath, SLASH), commitsWithFiles)

\* { ...commit, files }
AttachFiles(commit, files) == Assoc("files", files, commit)

\* Object.assign(commit, { files }): the caller's record gets the files too
AssignToSource(commit, files) == Assoc("files", files, commit)

\* what { ...commit, files } leaves in the caller's commit record
SpreadSource(commit, files) == commit

\* Number(process.env.SRM_MAX_THREADS) || 500
DefaultThreads == 500
MaxThreads(env) == IF env.set /\ env.n # 0 THEN env.n ELSE DefaultThreads

(***************************************************************************)
(* options-transforms and version-to-git-tag                               *)
(***************************************************************************)
EmptyObject == [k \in {} |-> Undefined]

\* view of a composition of lensProp lenses
RECURSIVE LensView(_, _)
LensView(path, x) ==
    IF Len(path) = 0 THEN x
    ELSE LensView(Tail(path), Prop(Head(path), x))

\* set of a composition of lensProp lenses: assoc at every level
RECURSIVE LensSet(_, _, _)
LensSet(path, value, x) ==
    IF Len(path) = 1 THEN Assoc(Head(path), value, IF x = Undefined THEN EmptyObject ELSE x)
    ELSE Assoc(Head(path), LensSet(Tail(path), value, Prop(Head(path), x)),
               IF x = Undefined THEN EmptyObject ELSE x)

commitsLens == <<"commits">>
versionLens == <<"nextRelease", "version">>

\* lens-utils' overA: read the field, transform it, write the result back;
\* f is the transform as a function on the values it is applied to
overA(lens, f, x) == LensSet(lens, f[LensView(lens, x)], x)

\* the template `${name}-v${version}`
TagTemplate(name, version) == name \o <<"-", "v">> \o version

\* versionToGitTag, with the name readPkg() gave
versionToGitTag(version, name) ==
    IF Falsy(version) THEN Null ELSE Str(TagTemplate(name, version.v))

\* mapNextReleaseVersion(versionToGitTag)
mapNextReleaseVersion(x, name) ==
    overA(versionLens,
          [version \in {LensView(versionLens, x)} |-> versionToGitTag(version, name)], x)

\* the transforms index.js composes around the delegate, after the commits
HookTransforms(hk, x, name) ==
    IF hk = "analyzeCommits" THEN x ELSE mapNextReleaseVersion(x, name)

(***************************************************************************)
(* The repository and the packages of the example: packages a/ and b/,     *)
(* commit h1 touches a/index.js, h2 touches b/index.js, h3 touches         *)
(* a/x.js and b/y.js.                                                      *)
(***************************************************************************)
Hashes == {"h1", "h2", "h3"}

IndexJs == <<"i", "n", "d", "e", "x", ".", "j", "s">>
PackageJson == <<"p", "a", "c", "k", "a", "g", "e", ".", "j", "s", "o", "n">>

AIndexJs == <<"a", SLASH>> \o IndexJs
BIndexJs == <<"b", SLASH>> \o IndexJs
AXJs == <<"a", SLASH, "x", ".", "j", "s">>
BYJs == <<"b", SLASH, "y", ".", "j", "s">>

ScenarioRepo ==
    [h \in Hashes |->
        CASE h = "h1" -> AIndexJs
          [] h = "h2" -> BIndexJs
          [] OTHER -> AXJs \o <<NL>> \o BYJs]

\* other outputs of git diff-tree: the package directory itself, a sibling
\* whose name starts like the package's, paths normalize rewrites, a file
\* above the package, and the empty output of a commit without files
OtherStdouts ==
    { <<"a">>,
      <<"p", "k", "g", "-", "o", "t", "h", "e", "r", SLASH, "x">>,
      <<"p", "k", "g", SLASH, "x">>,
      <<"p", "k", "g">>,
      <<"b", SLASH, ".", ".", SLASH, "a", SLASH, "x">>,
      <<"a", SLASH, SLASH, "b", SLASH, "c">>,
      <<"a", "b">>,
      <<>> }

ManifestAt(dir) == GitRoot \o dir \o <<SLASH>> \o PackageJson

RootManifest == ManifestAt(<<>>)
AManifest == ManifestAt(<<SLASH, "a">>)
BManifest == ManifestAt(<<SLASH, "b">>)
PkgManifest == ManifestAt(<<SLASH, "p", "k", "g">>)
ABManifest == ManifestAt(<<SLASH, "a", SLASH, "b">>)

Manifests == {RootManifest, AManifest, BManifest, PkgManifest, ABManifest}

\* readPkg().name: the name the manifest declares
MyPkg == <<"m", "y", "-", "p", "k", "g">>
readPkgName(manifest) == IF manifest = AManifest THEN MyPkg ELSE <<"l", "i", "b">>

\* a commit record as the host hands it over
Commit(h) == [hash |-> h, subject |-> "subject"]

V123 == <<"1", ".", "2", ".", "3">>

\* the nextRelease objects a host may pass; <<>> stands for no nextRelease
NextReleases ==
    { <<>>,
      <<[type |-> "minor"]>>,
      <<[type |-> "minor", version |-> Str(V123)]>>,
      <<[type |-> "minor", version |-> Str(<<>>)]>> }

ReleaseState(list, nr) ==
    LET base == [commits |-> [i \in 1..Len(list) |-> Commit(list[i])],
                 logger |-> "logger",
                 options |-> [debug |-> FALSE]]
    IN  IF nr = <<>> THEN base ELSE Assoc("nextRelease", nr[1], base)

HookNames == {"analyzeCommits", "generateNotes", "success", "fail"}

(***************************************************************************)
(* Bounds of the model                                                     *)
(***************************************************************************)
\* hook invocations whose fetch tasks may be alive at the same time
MaxOverlap == 2
\* longest commit list a hook is called with
MaxCommits == 3
\* the counter of reader calls per hash stops counting here
CallCap == 3

Slots == 1..MaxOverlap

Min(a, b) == IF a < b THEN a ELSE b

Distinct(list) == \A i, j \in 1..Len(list) : i # j => list[i] # list[j]

\* the commit lists of a history: no hash twice
CommitLists ==
    {list \in UNION {[1..n -> Hashes] : n \in 0..MaxCommits} : Distinct(list)}

(***************************************************************************)
(* Promises                                                                *)
(***************************************************************************)
Pending == [s |-> "pending"]
Fulfilled(value) == [s |-> "fulfilled", v |-> value]
Rejected(err) == [s |-> "rejected", e |-> err]

(***************************************************************************)
(* memoizedGetCommitFiles = memoizeWith(identity, getCommitFiles)          *)
(***************************************************************************)
\* a memo that forgets the failures it stored
MemoHasUnlessRejected(c, h) == h \in DOMAIN c /\ c[h].p.s # "rejected"

\* a memo that only knows a hash once its promise has settled
MemoHasOnceSettled(c, h) == h \in DOMAIN c /\ c[h].p.s # "pending"

\* the key is in the table
MemoHas(c, h) == h \in DOMAIN c

\* the hashes among H whose call reaches getCommitFiles
Misses(c, H) == {h \in H : ~MemoHas(c, h)}

\* the table after memoizedGetCommitFiles was called for every hash of H:
\* a miss stores the promise of a new reader call
MemoAfter(c, calls, H) ==
    [h \in DOMAIN c \cup H |->
        IF h \in Misses(c, H)
        THEN [call |-> Min(calls[h] + 1, CallCap), p |-> Pending]
        ELSE c[h]]

CallsAfter(c, calls, H) ==
    [h \in Hashes |-> IF h \in Misses(c, H) THEN Min(calls[h] + 1, CallCap) ELSE calls[h]]

RunningAfter(c, run, H) ==
    [h \in Hashes |-> IF h \in Misses(c, H) THEN run[h] + 1 ELSE run[h]]

(***************************************************************************)
(* withFiles: pLimit and Promise.all                                       *)
(***************************************************************************)
\* results collected in the order the fetches complete
PlaceInArrivalOrder(res, i, value) ==
    LET free == {j \in 1..Len(res) : res[j] = Pending}
        first == CHOOSE j \in free : \A other \in free : j <= other
    IN  [res EXCEPT ![first] = value]

\* Promise.all keeps the value of the i-th promise at index i
Place(res, i, value) == [res EXCEPT ![i] = value]

\* a limiter whose run() lacks the try/catch around `await result`
RunsNextOnSuccessOnly(value) == value.s = "fulfilled"

\* pLimit's run(): next() is called however the task settled
RunsNext(value) == TRUE

\* a combinator that waits for every promise and drops the rejected ones
PromiseAllSettled(prev, value, res) ==
    IF prev # Pending THEN prev
    ELSE IF \A j \in 1..Len(res) : res[j] # Pending
    THEN Fulfilled(LET ok == SelectSeq(res, LAMBDA r : r.s = "fulfilled")
                   IN  [j \in 1..Len(ok) |-> ok[j].v])
    ELSE Pending

\* Promise.all after one more promise settled with value: it rejects with
\* the first rejection and fulfils once every promise has fulfilled
PromiseAll(prev, value, res) ==
    IF prev # Pending THEN prev
    ELSE IF value.s = "rejected" THEN Rejected(value.e)
    ELSE IF \A j \in 1..Len(res) : res[j].s = "fulfilled"
    THEN Fulfilled([j \in 1..Len(res) |-> res[j].v])
    ELSE Pending

\* mapCommits(onlyPackageCommits) once withFiles has resolved
mapCommits(x, pkgPath, commitsWithFiles) ==
    overA(commitsLens,
          [commits \in {LensView(commitsLens, x)} |-> PackageCommits(pkgPath, commitsWithFiles)], x)

(***************************************************************************)
(* The state after the module is loaded: an empty memo table, no limiter,  *)
(* no hook called yet.                                                     *)
(***************************************************************************)
NoState == EmptyObject
NoArguments == [pluginConfig |-> "none", state |-> NoState]

Loaded ==
    /\ cache = [h \in {} |-> Pending]
    /\ running = [h \in Hashes |-> 0]
    /\ readerCalls = [h \in Hashes |-> 0]
    /\ readerFailed = [h \in Hashes |-> FALSE]
    /\ served = [h \in Hashes |-> {}]
    /\ limit = [k \in Slots |-> 0]
    /\ queue = [k \in Slots |-> <<>>]
    /\ active = [k \in Slots |-> {}]
    /\ latest = 1
    /\ stage = "idle"
    /\ hook = "analyzeCommits"
    /\ pluginConfig = "none"
    /\ config = NoState
    /\ given = NoArguments
    /\ failedBefore = {}
    /\ packagePath = <<>>
    /\ results = <<>>
    /\ mapped = NoState
    /\ all = Pending
    /\ outcome = Pending
    /\ handed = <<>>

\* SRM_MAX_THREADS unset, 1 or 2
ThreadSettings == {[set |-> FALSE, n |-> 0], [set |-> TRUE, n |-> 1], [set |-> TRUE, n |-> 2]}

Init ==
    /\ envThreads \in ThreadSettings
    /\ pkgJson = AManifest
    /\ repo = ScenarioRepo
    /\ Loaded

\* the hook's promise has settled, or no hook was called yet
Settled == stage \in {"idle", "done", "failed"}

\* a limiter without tasks: nothing refers to it any more
Drained(k) == queue[k] = <<>> /\ active[k] = {}

\* the task pLimit queues for the commit at index i
Task(i, commit) == [i |-> i, commit |-> commit]

(***************************************************************************)
(* The host calls a wrapped hook (index.js): logPluginVersion passes the   *)
(* arguments on, withOnlyPackageCommits starts mapCommits, which awaits    *)
(* getPackagePath().  The host runs one hook at a time; the tasks a        *)
(* failed invocation left in its limiter go on running.                    *)
(***************************************************************************)
HookCall(k, hk, pc, state) ==
    /\ Settled
    /\ Drained(k)
    /\ \A other \in Slots : other < k => ~Drained(other)
    /\ latest' = k
    /\ stage' = "resolving"
    /\ hook' = hk
    /\ pluginConfig' = pc
    /\ config' = state
    /\ given' = [pluginConfig |-> pc, state |-> state]
    /\ failedBefore' = {h \in Hashes : readerFailed[h]}
    /\ packagePath' = <<>>
    /\ results' = <<>>
    /\ mapped' = NoState
    /\ all' = Pending
    /\ outcome' = Pending
    /\ handed' = <<>>
    /\ UNCHANGED <<envThreads, pkgJson, repo, cache, running, readerCalls,
                   readerFailed, served, limit, queue, active>>

(***************************************************************************)
(* The continuations that run, one after the other, before the process     *)
(* takes its next event.  m holds the variables they read and write.       *)
(***************************************************************************)
Microstate ==
    [cache |-> cache, readerCalls |-> readerCalls, running |-> running,
     served |-> served, queue |-> queue, active |-> active, results |-> results,
     config |-> config, all |-> all, outcome |-> outcome, stage |-> stage,
     mapped |-> mapped, packagePath |-> packagePath]

\* a task continues after `await memoizedGetCommitFiles(commit.hash)`: its
\* promise settles and the limiter starts its next queued task; in the
\* invocation that awaits Promise.all, Promise.all may settle: a rejection
\* fails onlyPackageCommits and with it the hook, the last fulfilment runs
\* the filter, whose result mapCommits writes into the state
TaskSettle(m, k, t) ==
    LET h == t.commit.hash
        got == m.cache[h].p
        value == IF got.s = "fulfilled"
                 THEN Fulfilled(AttachFiles(t.commit, got.v))
                 ELSE Rejected(got.e)
        starts == RunsNext(value) /\ m.queue[k] # <<>>
        H == IF starts THEN {Head(m.queue[k]).commit.hash} ELSE {}
        awaited == k = latest /\ m.stage = "fetching"
        commits == LensView(commitsLens, m.config)
        kept == IF got.s = "fulfilled" THEN SpreadSource(t.commit, got.v) ELSE t.commit
        caller == LensSet(commitsLens, [commits EXCEPT ![t.i] = kept], m.config)
        res == Place(m.results, t.i, value)
        settled == PromiseAll(m.all, value, res)
        limiter ==
            [m EXCEPT
               !.served = [@ EXCEPT ![h] = @ \cup {got}],
               !.cache = MemoAfter(m.cache, m.readerCalls, H),
               !.readerCalls = CallsAfter(m.cache, m.readerCalls, H),
               !.running = RunningAfter(m.cache, m.running, H),
               !.active = [@ EXCEPT ![k] =
                             (@ \ {t}) \cup (IF starts THEN {Head(m.queue[k])} ELSE {})],
               !.queue = [@ EXCEPT ![k] = IF starts THEN Tail(@) ELSE @]]
    IN  IF ~awaited THEN limiter
        ELSE [limiter EXCEPT
                !.results = res,
                !.config = caller,
                !.all = settled,
                !.outcome = IF settled.s = "rejected" THEN Rejected(settled.e) ELSE @,
                !.stage = IF settled.s = "rejected" THEN "failed"
                          ELSE IF settled.s = "fulfilled" THEN "logging" ELSE @,
                !.mapped = IF settled.s = "fulfilled"
                           THEN mapCommits(caller, m.packagePath, settled.v) ELSE @]

\* the tasks whose awaited promise has settled
Ready(m) ==
    {kt \in UNION {{<<k, t>> : t \in m.active[k]} : k \in Slots} :
        LET h == kt[2].commit.hash
        IN  h \in DOMAIN m.cache /\ m.cache[h].p # Pending}

\* within a limiter the continuations run in the order the tasks started
RECURSIVE RunMicrotasks(_)
RunMicrotasks(m) ==
    IF Ready(m) = {} THEN m
    ELSE CHOOSE r \in
             {RunMicrotasks(n) :
                 n \in {TaskSettle(m, kt[1], kt[2]) :
                          kt \in {CHOOSE x \in Ready(m) :
                                     \A y \in Ready(m) :
                                         x[2].i < y[2].i \/ (x[2].i = y[2].i /\ x[1] <= y[1])}}} :
             TRUE

Becomes(m) ==
    /\ cache' = m.cache
    /\ readerCalls' = m.readerCalls
    /\ running' = m.running
    /\ served' = m.served
    /\ queue' = m.queue
    /\ active' = m.active
    /\ results' = m.results
    /\ config' = m.config
    /\ all' = m.all
    /\ outcome' = m.outcome
    /\ stage' = m.stage
    /\ mapped' = m.mapped
    /\ packagePath' = m.packagePath

(***************************************************************************)
(* getPackagePath() has resolved: withFiles creates its limiter, submits   *)
(* one task per commit and the first `limit` of them start, each calling   *)
(* memoizedGetCommitFiles; the tasks whose promise is already settled      *)
(* continue.  An empty list resolves at once and is filtered.              *)
(***************************************************************************)
WithFiles ==
    /\ stage = "resolving"
    /\ LET commits == LensView(commitsLens, config)
           n == Len(commits)
           lim == MaxThreads(envThreads)
           first == Min(n, lim)
           H == {commits[i].hash : i \in 1..first}
           pp == getPackagePath(pkgJson)
           started ==
               [Microstate EXCEPT
                  !.packagePath = pp,
                  !.queue = [@ EXCEPT ![latest] =
                               [j \in 1..(n - first) |-> Task(j + first, commits[j + first])]],
                  !.active = [@ EXCEPT ![latest] = {Task(i, commits[i]) : i \in 1..first}],
                  !.results = [i \in 1..n |-> Pending],
                  !.cache = MemoAfter(cache, readerCalls, H),
                  !.readerCalls = CallsAfter(cache, readerCalls, H),
                  !.running = RunningAfter(cache, running, H),
                  !.all = IF n = 0 THEN Fulfilled(<<>>) ELSE Pending,
                  !.mapped = IF n = 0 THEN mapCommits(config, pp, <<>>) ELSE @,
                  !.stage = IF n = 0 THEN "logging" ELSE "fetching"]
       IN  /\ limit' = [limit EXCEPT ![latest] = lim]
           /\ \E m \in {RunMicrotasks(s) : s \in {started}} : Becomes(m)
    /\ UNCHANGED <<envThreads, pkgJson, repo, readerFailed, latest, hook,
                   pluginConfig, given, failedBefore, handed>>

(***************************************************************************)
(* A git diff-tree subprocess ends: the promise getCommitFiles returned    *)
(* for the hash settles, and the tasks that await it continue.             *)
(***************************************************************************)
ReaderDone(h, ok) ==
    /\ running[h] > 0
    /\ readerFailed' = [readerFailed EXCEPT ![h] = @ \/ ~ok]
    /\ LET exited ==
               [Microstate EXCEPT
                  !.running = [@ EXCEPT ![h] = @ - 1],
                  !.cache = IF h \in DOMAIN cache /\ cache[h].p = Pending
                            THEN [@ EXCEPT ![h].p =
                                    IF ok THEN Fulfilled(getCommitFiles(repo[h]))
                                    ELSE Rejected(HistoryUnavailable(h))]
                            ELSE @]
       IN  \E m \in {RunMicrotasks(s) : s \in {exited}} : Becomes(m)
    /\ UNCHANGED <<envThreads, pkgJson, repo, limit, latest, hook, pluginConfig,
                   given, failedBefore, handed>>

(***************************************************************************)
(* readPkg() has resolved: logFilteredCommitCount logs, the hooks other    *)
(* than analyzeCommits map nextRelease.version, and the delegate plugin    *)
(* is called; its result is the hook's.                                    *)
(***************************************************************************)
Delegate ==
    /\ stage = "logging"
    /\ handed' = Append(handed, [pluginConfig |-> pluginConfig,
                                 state |-> HookTransforms(hook, mapped,
                                                          readPkgName(pkgJson))])
    /\ outcome' = Fulfilled("result")
    /\ stage' = "done"
    /\ UNCHANGED <<envThreads, pkgJson, repo, cache, running, readerCalls,
                   readerFailed, served, limit, queue, active, latest, hook,
                   pluginConfig, config, given, failedBefore, packagePath, results,
                   mapped, all>>

(***************************************************************************)
(* The process: hooks called one after the other, on any commit list of    *)
(* the example repository, from package a.                                 *)
(***************************************************************************)
Next ==
    \/ \E k \in Slots, list \in CommitLists :
          HookCall(k, "analyzeCommits", "pluginConfig", ReleaseState(list, <<>>))
    \/ WithFiles
    \/ \E h \in Hashes, ok \in BOOLEAN : ReaderDone(h, ok)
    \/ Delegate

Spec == Init /\ [][Next]_vars

\* every started git subprocess ends, and a resolved getPackagePath() or
\* readPkg() lets the hook continue; the host need not call another hook
Fairness ==
    /\ WF_vars(WithFiles)
    /\ WF_vars(Delegate)
    /\ \A h \in Hashes : WF_vars(\E ok \in BOOLEAN : ReaderDone(h, ok))

SpecLive == Spec /\ Fairness

(***************************************************************************)
(* The four hooks, called from package a or b with and without a           *)
(* nextRelease, on some commit lists of the example repository.            *)
(***************************************************************************)
HookLists == {<<>>, <<"h2">>, <<"h1", "h2", "h3">>}

InitHook ==
    /\ envThreads = [set |-> FALSE, n |-> 0]
    /\ pkgJson \in {AManifest, BManifest}
    /\ repo = ScenarioRepo
    /\ Loaded

NextHook ==
    \/ \E k \in Slots, hk \in HookNames, nr \in NextReleases, list \in HookLists :
          HookCall(k, hk, "pluginConfig", ReleaseState(list, nr))
    \/ WithFiles
    \/ \E h \in Hashes, ok \in BOOLEAN : ReaderDone(h, ok)
    \/ Delegate

SpecHook == InitHook /\ [][NextHook]_vars

(***************************************************************************)
(* The filter over package directories and git outputs: every package of   *)
(* Manifests, and the example repository with one commit's output          *)
(* replaced.                                                               *)
(***************************************************************************)
FilterRepos ==
    {ScenarioRepo} \cup
    {[ScenarioRepo EXCEPT ![h] = out] : h \in Hashes, out \in OtherStdouts}

FilterLists == {<<>>, <<"h2">>, <<"h3", "h1">>, <<"h1", "h2", "h3">>}

InitFilter ==
    /\ envThreads = [set |-> FALSE, n |-> 0]
    /\ pkgJson \in Manifests
    /\ repo \in FilterRepos
    /\ Loaded

NextFilter ==
    \/ \E k \in Slots, list \in FilterLists :
          HookCall(k, "analyzeCommits", "pluginConfig", ReleaseState(list, <<>>))
    \/ WithFiles
    \/ \E h \in Hashes, ok \in BOOLEAN : ReaderDone(h, ok)
    \/ Delegate

SpecFilter == InitFilter /\ [][NextFilter]_vars

(***************************************************************************)
(* Properties                                                              *)
(***************************************************************************)
Range(f) == {f[i] : i \in DOMAIN f}

HashesOf(commits) == [i \in 1..Len(commits) |-> commits[i].hash]

\* the commit list the hook was called with
Incoming == IF "commits" \in DOMAIN given.state THEN given.state.commits ELSE <<>>

\* onlyPackageCommits has returned
Filtered == stage \in {"logging", "done"}

\* list without the entries that are not in S
RECURSIVE Restrict(_, _)
Restrict(list, S) ==
    IF Len(list) = 0 THEN <<>>
    ELSE (IF Head(list) \in S THEN <<Head(list)>> ELSE <<>>) \o Restrict(Tail(list), S)

\* the path is the directory itself or continues it after a separator
InsideDirectory(dir, path) ==
    \/ path = dir
    \/ Len(path) > Len(dir) /\ SubSeq(path, 1, Len(dir) + 1) = dir \o <<SLASH>>

\* the commits with a changed file inside the directory
Touching(dir) ==
    {h \in Hashes : \E line \in Range(Split(repo[h], NL)) :
                        InsideDirectory(dir, Normalize(line))}

PackageDirs == {<<"a">>, <<"b">>, <<"p", "k", "g">>, <<"a", SLASH, "b">>}

\* C1: for a package directory P (one or more segments), onlyPackageCommits
\* keeps exactly the commits with a changed file whose normalized path is P
\* or lies under P (whole segments: package pkg does not match
\* pkg-other/x, a shorter path does not match); in the example, package a
\* keeps [commit1, commit3] and package b keeps [commit2, commit3].
C1_WholeSegmentPrefix ==
    Filtered /\ packagePath \in PackageDirs =>
        /\ HashesOf(mapped.commits) = Restrict(HashesOf(Incoming), Touching(packagePath))
        /\ repo = ScenarioRepo /\ HashesOf(Incoming) = <<"h1", "h2", "h3">> =>
              /\ pkgJson = AManifest => HashesOf(mapped.commits) = <<"h1", "h3">>
              /\ pkgJson = BManifest => HashesOf(mapped.commits) = <<"h2", "h3">>

\* package pkg, one commit touching pkg-other/x dropped, another kept
C1_Witness ==
    /\ Filtered
    /\ packagePath = <<"p", "k", "g">>
    /\ \E h \in Range(HashesOf(Incoming)) :
          /\ repo[h] = <<"p", "k", "g", "-", "o", "t", "h", "e", "r", SLASH, "x">>
          /\ h \notin Range(HashesOf(mapped.commits))
    /\ Len(Incoming) = 3

\* C8: with the package at the repository root, every commit of the input
\* that changed at least one file is retained.
C8_RootKeepsEveryCommit ==
    Filtered /\ pkgJson = RootManifest =>
        HashesOf(mapped.commits) = Restrict(HashesOf(Incoming), {h \in Hashes : repo[h] # <<>>})

\* a is b with entries left out, the others in b's order
RECURSIVE IsSubsequence(_, _)
IsSubsequence(a, b) ==
    IF Len(a) = 0 THEN TRUE
    ELSE IF Len(b) = 0 THEN FALSE
    ELSE IF Head(a) = Head(b) THEN IsSubsequence(Tail(a), Tail(b))
    ELSE IsSubsequence(a, Tail(b))

\* the commit at index i of the input with the files git printed for it
Enriched(i) ==
    [hash |-> Incoming[i].hash, subject |-> Incoming[i].subject,
     files |-> Split(repo[Incoming[i].hash], NL)]

\* C2: in whatever order the fetches complete, entry i of withFiles' result
\* is commit i of the input with its own files, the result is as long as
\* the input, and onlyPackageCommits returns a subsequence of the input in
\* the input's order.
C2_OrderPreserved ==
    /\ stage \in {"fetching", "failed", "logging", "done"} =>
          /\ Len(results) = Len(Incoming)
          /\ \A i \in 1..Len(results) :
                results[i].s = "fulfilled" => results[i].v = Enriched(i)
    /\ Filtered =>
          /\ all.s = "fulfilled"
          /\ all.v = [i \in 1..Len(Incoming) |-> Enriched(i)]
          /\ IsSubsequence(mapped.commits, all.v)
          /\ IsSubsequence(HashesOf(mapped.commits), HashesOf(Incoming))

\* the fetch of the third commit has completed before that of the first
C2_Witness ==
    /\ stage = "fetching"
    /\ Len(results) = 3
    /\ results[1] = Pending
    /\ results[3].s = "fulfilled"
    /\ results[3].v = Enriched(3)

\* git diff-tree subprocesses in flight
Outstanding == running["h1"] + running["h2"] + running["h3"]

\* the integer SRM_MAX_THREADS gives, 500 when it is not set
ConfiguredMax == IF envThreads.set THEN envThreads.n ELSE DefaultThreads

\* C3: the number of reader calls that have started and not completed
\* never exceeds maxConcurrent.
C3_OutstandingBounded == Outstanding <= ConfiguredMax

\* within one withFiles call the limiter holds its bound
PerLimiterBound == \A k \in Slots : Cardinality(active[k]) <= MaxThreads(envThreads)

\* C4: the reader is invoked exactly once per hash asked for, every call
\* for a hash yields the same outcome, also when it is issued while the
\* first is pending or from another filter invocation, and a stored entry
\* is never replaced or removed.
C4_OncePerHash ==
    /\ [](\A h \in Hashes :
            /\ readerCalls[h] = (IF h \in DOMAIN cache THEN 1 ELSE 0)
            /\ running[h] <= 1
            /\ Cardinality(served[h]) <= 1
            /\ served[h] # {} => h \in DOMAIN cache /\ served[h] = {cache[h].p})
    /\ [][\A h \in DOMAIN cache :
            /\ h \in DOMAIN cache'
            /\ cache'[h].call = cache[h].call
            /\ cache[h].p # Pending => cache'[h] = cache[h]]_vars

\* tasks of two limiters await the same pending promise
C4_Witness ==
    \E h \in DOMAIN cache : \E k1, k2 \in Slots :
        /\ k1 # k2
        /\ cache[h].p = Pending
        /\ \E t \in active[k1] : t.commit.hash = h
        /\ \E t \in active[k2] : t.commit.hash = h

\* C5: a failed fetch fails the whole filter and the hook with that error;
\* no partial list is produced, the fetch is not retried and the delegate
\* is not called.
C5_FailFast ==
    /\ \A h \in Hashes : readerCalls[h] <= 1
    /\ (\E i \in 1..Len(results) : results[i].s = "rejected") => stage = "failed"
    /\ stage = "failed" =>
          /\ \E i \in 1..Len(results) :
                /\ results[i] = Rejected(HistoryUnavailable(Incoming[i].hash))
                /\ all = results[i]
                /\ outcome = results[i]
          /\ mapped = NoState
          /\ handed = <<>>
    /\ Filtered =>
          \A i \in 1..Len(Incoming) : cache[Incoming[i].hash].p.s = "fulfilled"

\* the hook has failed although another commit's fetch had succeeded
C5_Witness ==
    /\ stage = "failed"
    /\ \E i \in 1..Len(results) : results[i].s = "fulfilled"
    /\ handed = <<>>

\* C10: once the fetch of a hash has failed, every later filter call whose
\* list contains the hash fails with that error and the reader is not
\* invoked for it again.
C10_FailureCached ==
    /\ \A h \in Hashes :
          readerFailed[h] =>
             /\ readerCalls[h] = 1
             /\ h \in DOMAIN cache
             /\ cache[h].p = Rejected(HistoryUnavailable(h))
             /\ served[h] \subseteq {Rejected(HistoryUnavailable(h))}
    /\ (\E i \in 1..Len(Incoming) : Incoming[i].hash \in failedBefore) =>
          /\ stage \in {"resolving", "fetching", "failed"}
          /\ handed = <<>>
          /\ stage = "failed" =>
                \E i \in 1..Len(Incoming) :
                    /\ readerFailed[Incoming[i].hash]
                    /\ outcome = Rejected(HistoryUnavailable(Incoming[i].hash))

\* a later hook call has failed on a failure stored before it was called,
\* with no subprocess running
C10_Witness ==
    /\ stage = "failed"
    /\ outcome.e.hash \in failedBefore
    /\ Outstanding = 0

\* within a limiter the tasks start in the order they were submitted: the
\* started tasks are the first of the list, the queue holds the others in
\* the list's order
StartsInOrder ==
    \A k \in Slots :
        /\ \A t \in active[k] : \A j \in 1..Len(queue[k]) : t.i < queue[k][j].i
        /\ \A j \in 1..Len(queue[k]) : queue[k][j].i = queue[k][1].i + j - 1
        /\ queue[k] # <<>> => active[k] # {}

\* withFiles on an empty list resolves with the empty list without a call
\* of the reader
EmptyListReturnsAtOnce ==
    stage = "resolving" /\ Len(LensView(commitsLens, config)) = 0 /\ stage' # stage =>
        /\ stage' = "logging"
        /\ all' = Fulfilled(<<>>)
        /\ readerCalls' = readerCalls
        /\ LensView(commitsLens, mapped') = <<>>

\* C9: the fan-out never deadlocks: when every started reader call
\* completes, withFiles settles for every list (empty, shorter or longer
\* than maxConcurrent); an empty list gives an empty result without a call
\* of the reader; every queued fetch is started, and queued fetches start
\* in the order of the input.
C9_NoDeadlock ==
    /\ []StartsInOrder
    /\ [][EmptyListReturnsAtOnce]_vars
    /\ [][stage = "fetching" /\ stage' # stage => stage' \in {"logging", "failed"}]_vars
    /\ []<>(stage \notin {"resolving", "fetching"})
    /\ \A k \in Slots : []<>(queue[k] = <<>>)

\* one slot, three commits: the second fetch has started after the first
\* completed, the third is queued
C9_Witness ==
    /\ stage = "fetching"
    /\ limit[latest] = 1
    /\ Len(results) = 3
    /\ results[1].s = "fulfilled"
    /\ \E t \in active[latest] : t.i = 2
    /\ Len(queue[latest]) = 1
    /\ queue[latest][1].i = 3

\* the incoming state has a nextRelease with a non-empty version
HasVersion(x) ==
    /\ "nextRelease" \in DOMAIN x
    /\ "version" \in DOMAIN x.nextRelease
    /\ ~Falsy(x.nextRelease.version)

\* the incoming state has no version
NoVersion(x) ==
    "nextRelease" \in DOMAIN x => "version" \notin DOMAIN x.nextRelease

\* C6: generateNotes, success and fail hand the delegate
\* nextRelease.version = "<name>-v<v>" for an incoming version v (my-pkg
\* and 1.2.3 give my-pkg-v1.2.3); without an incoming version the delegate
\* receives nextRelease as it came in, the version still absent.
C6_VersionTagged ==
    \A n \in 1..Len(handed) :
        hook # "analyzeCommits" =>
            LET in == given.state
                out == handed[n].state
            IN  /\ HasVersion(in) =>
                      /\ out.nextRelease.version =
                            Str(readPkgName(pkgJson) \o <<"-", "v">> \o in.nextRelease.version.v)
                      /\ pkgJson = AManifest /\ in.nextRelease.version = Str(V123) =>
                            out.nextRelease.version =
                               Str(<<"m", "y", "-", "p", "k", "g", "-", "v", "1", ".", "2", ".", "3">>)
                /\ NoVersion(in) =>
                      /\ "nextRelease" \in DOMAIN out <=> "nextRelease" \in DOMAIN in
                      /\ "nextRelease" \in DOMAIN in => out.nextRelease = in.nextRelease

\* the fields of the record other than those of S
Others(x, S) == [key \in DOMAIN x \ S |-> x[key]]

\* C7: the state handed to the delegate differs from the incoming state
\* only in commits and, for generateNotes, success and fail, in
\* nextRelease.version; the other fields and the other fields of
\* nextRelease have their incoming values, pluginConfig is forwarded,
\* analyzeCommits leaves nextRelease as it is, and the caller's state and
\* commit records are not changed.
C7_OnlyCommitsAndVersion ==
    /\ stage # "idle" => config = given.state
    /\ \A n \in 1..Len(handed) :
          LET in == given.state
              out == handed[n].state
          IN  /\ Len(handed) = 1
              /\ handed[n].pluginConfig = given.pluginConfig
              /\ "commits" \in DOMAIN out
              /\ Others(out, {"commits", "nextRelease"}) = Others(in, {"commits", "nextRelease"})
              /\ hook = "analyzeCommits" =>
                    Others(out, {"commits"}) = Others(in, {"commits"})
              /\ hook # "analyzeCommits" /\ "nextRelease" \in DOMAIN in =>
                    /\ "nextRelease" \in DOMAIN out
                    /\ Others(out.nextRelease, {"version"}) = Others(in.nextRelease, {"version"})

\* generateNotes has handed over a tagged version, fewer commits than came
\* in, after the fetches attached files to their copies of the commits
C7_Witness ==
    /\ stage = "done"
    /\ hook = "generateNotes"
    /\ Len(handed) = 1
    /\ HasVersion(given.state)
    /\ "type" \in DOMAIN handed[1].state.nextRelease
    /\ Len(Incoming) = 3
    /\ Len(handed[1].state.commits) = 2
    /\ \A i \in 1..2 : "files" \in DOMAIN handed[1].state.commits[i]

====
